---- MODULE Spec2Model ----
\* Per-frame pointer interaction resolution of egui (crates/egui/src/interaction.rs).
\* One step of the model is one call of `interact` on the inputs gathered for a frame.
EXTENDS Integers, Sequences, FiniteSets

\* ---------------------------------------------------------------- bounds
\* Longest pointer event list of one frame, per world (see the worlds below).
MaxClickEvents == 3
MaxDragEvents == 2
MaxHoverEvents == 2
MaxAmbiguityEvents == 3

\* ---------------------------------------------------------------- data
Ids == {"A", "B"}
Rects == {"r1", "r2"}
Senses == [click : BOOLEAN, drag : BOOLEAN]

\* WidgetRect { id, rect, sense }: a plain Copy struct stored by value.
WidgetRect == [id : Ids, rect : Rects, sense : Senses]

\* Option<T>: None is the empty sequence, Some(x) the one-element sequence.
None == <<>>
Some(x) == <<x>>

\* PointerEvent::{Moved, Pressed, Released{click}}
Moved == [type |-> "Moved", click |-> FALSE]
Pressed == [type |-> "Pressed", click |-> FALSE]
Released(c) == [type |-> "Released", click |-> c]
PointerEvent == {Moved, Pressed, Released(TRUE), Released(FALSE)}

\* A world fixes what the UI built around the resolver may present to it: the sense flags
\* each widget declares, the rectangles each widget may take from frame to frame, the
\* widgets that are laid out in every frame, whether the hit tester lists the widgets under
\* the pointer, and how many pointer events one frame may carry.
SenseClick == [click |-> TRUE, drag |-> FALSE]
SenseDrag == [click |-> FALSE, drag |-> TRUE]
SenseBoth == [click |-> TRUE, drag |-> TRUE]
Worlds(SenseSets, RectSets, perm, lists, n) ==
    {[sense |-> sn, rects |-> rs, permanent |-> perm, lists_pointer |-> lists, max_events |-> n] :
        sn \in SenseSets, rs \in RectSets}

\* Static widgets that sense clicks; long event lists.
ClickWorlds ==
    Worlds({[i \in Ids |-> SenseClick]},
           {[i \in Ids |-> {"r1"}]}, {}, FALSE, MaxClickEvents)
\* Two static widgets, one sensing clicks and drags and one sensing drags only; or a single
\* widget (B never shows up) that senses drags, with or without clicks, and moves from
\* frame to frame.
DragWorlds ==
    Worlds({[i \in Ids |-> IF i = "A" THEN SenseBoth ELSE SenseDrag]},
           {[i \in Ids |-> {"r1"}]}, {}, FALSE, MaxDragEvents)
    \cup Worlds({[i \in Ids |-> sa] : sa \in {SenseBoth, SenseDrag}},
                {[i \in Ids |-> IF i = "A" THEN Rects ELSE {}]}, {}, FALSE, MaxDragEvents)
\* Two static widgets, one sensing clicks and drags that comes and goes and one sensing
\* clicks only that is always laid out; long event lists.
AmbiguityWorlds ==
    Worlds({[i \in Ids |-> IF i = "A" THEN SenseBoth ELSE SenseClick]},
           {[i \in Ids |-> {"r1"}]}, {"B"}, FALSE, MaxAmbiguityEvents)
\* Two static widgets, one sensing clicks that is always laid out and one sensing drags
\* that comes and goes, under a hit tester that also lists the widgets under the pointer.
HoverWorlds ==
    Worlds({[i \in Ids |-> IF i = "A" THEN SenseClick ELSE SenseDrag]},
           {[i \in Ids |-> {"r1"}]}, {"A"}, TRUE, MaxHoverEvents)

\* WidgetRects.by_id: the geometry tables a frame may present, id -> WidgetRect; widgets
\* come and go between frames.
WidgetRects(w) ==
    UNION {{t \in [S -> WidgetRect] :
               \A i \in S : t[i].id = i /\ t[i].sense = w.sense[i] /\ t[i].rect \in w.rects[i]} :
           S \in {T \in SUBSET Ids : w.permanent \subseteq T}}

\* Option::map(|w| w.id)
MapId(o) == IF o = None THEN None ELSE Some(o[1].id)

\* interaction.X.and_then(|id| widgets.by_id.get(&id))
Resolve(oid, by_id) == IF oid # None /\ oid[1] \in DOMAIN by_id THEN Some(by_id[oid[1]]) ELSE None

\* iter.map(|w| (w.id, *w)).collect::<IdMap<_>>(): later entries overwrite earlier ones.
RECURSIVE Collect(_)
Collect(ws) ==
    IF ws = <<>> THEN <<>>
    ELSE LET m == Collect(SubSeq(ws, 1, Len(ws) - 1))
             w == ws[Len(ws)]
         IN [i \in (DOMAIN m) \cup {w.id} |-> IF i = w.id THEN w ELSE m[i]]

\* WidgetHits { click, drag, contains_pointer } as the hit tester may return them for a
\* geometry table: every referenced widget is the table's entry for its id, the click
\* candidate senses clicks, the drag candidate senses drags, contains_pointer lists
\* distinct widgets back to front.
\* The orders in which the widgets of S can be stacked, with or without some of them.
SeqsOver(S) == UNION {{q \in [1..n -> S] : \A i, j \in 1..n : i # j => q[i] # q[j]} : n \in 0..Cardinality(S)}
WidgetHits(by_id, lists) ==
    {[click |-> c, drag |-> d, contains_pointer |-> [k \in DOMAIN q |-> by_id[q[k]]]] :
        c \in {None} \cup {Some(by_id[i]) : i \in {j \in DOMAIN by_id : by_id[j].sense.click}},
        d \in {None} \cup {Some(by_id[i]) : i \in {j \in DOMAIN by_id : by_id[j].sense.drag}},
        q \in IF lists THEN SeqsOver(DOMAIN by_id) ELSE {<<>>}}

\* InteractionState { click_id, drag_id }
InteractionState == [click_id : {None} \cup {Some(i) : i \in Ids}, drag_id : {None} \cup {Some(i) : i \in Ids}]

\* Mutant: the vanished drag target is forgotten as well.
LivenessCheckClearsDrag(st, by_id) ==
    [st EXCEPT !.click_id = IF st.click_id # None /\ st.click_id[1] \notin DOMAIN by_id THEN None ELSE @,
               !.drag_id = IF st.drag_id # None /\ st.drag_id[1] \notin DOMAIN by_id THEN None ELSE @]

\* Mutant: the vanished click target is kept.
LivenessCheckKeepsClick(st, by_id) == st

\* Lines 92-105: a vanished click target is forgotten, a vanished drag target is kept.
LivenessCheck(st, by_id) ==
    [st EXCEPT !.click_id = IF st.click_id # None /\ st.click_id[1] \notin DOMAIN by_id THEN None ELSE @]

\* Mutant: a Released records the click whether or not it carries the click flag.
OnEventClickWithoutFlag(st, ev, by_id, h) ==
    CASE ev.type = "Moved" -> st
      [] ev.type = "Pressed" ->
            [st EXCEPT !.click_id = IF st.click_id = None THEN MapId(h.click) ELSE @,
                       !.drag_id = IF st.drag_id = None THEN MapId(h.drag) ELSE @]
      [] ev.type = "Released" ->
            [click_id |-> None,
             drag_id |-> None,
             clicked |-> IF Resolve(st.click_id, by_id) # None
                         THEN Resolve(st.click_id, by_id) ELSE st.clicked]

\* Mutant: a Released clears the click target only.
OnEventReleaseKeepsDrag(st, ev, by_id, h) ==
    CASE ev.type = "Moved" -> st
      [] ev.type = "Pressed" ->
            [st EXCEPT !.click_id = IF st.click_id = None THEN MapId(h.click) ELSE @,
                       !.drag_id = IF st.drag_id = None THEN MapId(h.drag) ELSE @]
      [] ev.type = "Released" ->
            [click_id |-> None,
             drag_id |-> st.drag_id,
             clicked |-> IF ev.click /\ Resolve(st.click_id, by_id) # None
                         THEN Resolve(st.click_id, by_id) ELSE st.clicked]

\* Mutant: a Released clears the tracked targets only when it carries the click flag.
OnEventClearsOnClickOnly(st, ev, by_id, h) ==
    CASE ev.type = "Moved" -> st
      [] ev.type = "Pressed" ->
            [st EXCEPT !.click_id = IF st.click_id = None THEN MapId(h.click) ELSE @,
                       !.drag_id = IF st.drag_id = None THEN MapId(h.drag) ELSE @]
      [] ev.type = "Released" ->
            [click_id |-> IF ev.click THEN None ELSE st.click_id,
             drag_id |-> IF ev.click THEN None ELSE st.drag_id,
             clicked |-> IF ev.click /\ Resolve(st.click_id, by_id) # None
                         THEN Resolve(st.click_id, by_id) ELSE st.clicked]

\* Mutant: a Pressed adopts the candidates even when a target is already tracked.
OnEventPressOverwrites(st, ev, by_id, h) ==
    CASE ev.type = "Moved" -> st
      [] ev.type = "Pressed" ->
            [st EXCEPT !.click_id = MapId(h.click), !.drag_id = MapId(h.drag)]
      [] ev.type = "Released" ->
            [click_id |-> None,
             drag_id |-> None,
             clicked |-> IF ev.click /\ Resolve(st.click_id, by_id) # None
                         THEN Resolve(st.click_id, by_id) ELSE st.clicked]

\* Mutant: a Moved adopts the candidates the way a Pressed does.
OnEventMovedAdopts(st, ev, by_id, h) ==
    CASE ev.type \in {"Moved", "Pressed"} ->
            [st EXCEPT !.click_id = IF st.click_id = None THEN MapId(h.click) ELSE @,
                       !.drag_id = IF st.drag_id = None THEN MapId(h.drag) ELSE @]
      [] ev.type = "Released" ->
            [click_id |-> None,
             drag_id |-> None,
             clicked |-> IF ev.click /\ Resolve(st.click_id, by_id) # None
                         THEN Resolve(st.click_id, by_id) ELSE st.clicked]

\* Lines 111-137: one pointer event applied to [click_id, drag_id, clicked].
OnEvent(st, ev, by_id, h) ==
    CASE ev.type = "Moved" -> st
      [] ev.type = "Pressed" ->
            [st EXCEPT !.click_id = IF st.click_id = None THEN MapId(h.click) ELSE @,
                       !.drag_id = IF st.drag_id = None THEN MapId(h.drag) ELSE @]
      [] ev.type = "Released" ->
            [click_id |-> None,
             drag_id |-> None,
             clicked |-> IF ev.click /\ Resolve(st.click_id, by_id) # None
                         THEN Resolve(st.click_id, by_id) ELSE st.clicked]

\* Lines 110-138: the events of the frame replayed in order.
RECURSIVE Replay(_, _, _, _)
Replay(st, evs, by_id, h) ==
    IF evs = <<>> THEN st ELSE Replay(OnEvent(st, Head(evs), by_id, h), Tail(evs), by_id, h)

\* Mutant: a widget that senses drags is dragged at once, whether or not it senses clicks.
DraggedAtOnce(drag_id, by_id, decided) ==
    LET widget == Resolve(drag_id, by_id)
    IN IF widget # None /\ widget[1].sense.drag THEN widget ELSE None

\* Lines 141-156: the widget dragged this frame.
Dragged(drag_id, by_id, decided) ==
    LET widget == Resolve(drag_id, by_id)
    IN IF widget = None THEN None
       ELSE LET is_dragged == IF widget[1].sense.click /\ widget[1].sense.drag
                              THEN decided ELSE widget[1].sense.drag
            IN IF is_dragged THEN widget ELSE None

\* Line 158: Option<WidgetRect> != Option<WidgetRect>, the field-wise comparison of the
\* values held in the two snapshots.
DragChanged(dragged, prev_dragged) == dragged # prev_dragged

\* Mutant: the hit tester's candidates stay hovered during a click or drag.
HoveredWithCandidates(clicked, dragged, h) ==
    IF clicked # None \/ dragged # None \/ h.click # None \/ h.drag # None
    THEN Collect(clicked \o dragged \o h.click \o h.drag)
    ELSE IF h.contains_pointer = <<>> THEN Collect(<<>>)
    ELSE Collect(<<h.contains_pointer[Len(h.contains_pointer)]>>)

\* Mutant: the topmost widget under the pointer wins over the candidates.
HoveredTopmostFirst(clicked, dragged, h) ==
    IF clicked # None \/ dragged # None THEN Collect(clicked \o dragged)
    ELSE IF h.contains_pointer # <<>> THEN Collect(<<h.contains_pointer[Len(h.contains_pointer)]>>)
    ELSE Collect(h.click \o h.drag)

\* Mutant: every widget under the pointer is hovered when nothing is interactive.
HoveredAllUnderPointer(clicked, dragged, h) ==
    IF clicked # None \/ dragged # None THEN Collect(clicked \o dragged)
    ELSE IF h.click # None \/ h.drag # None THEN Collect(h.click \o h.drag)
    ELSE Collect(h.contains_pointer)

\* Lines 178-197
Hovered(clicked, dragged, h) ==
    IF clicked # None \/ dragged # None THEN Collect(clicked \o dragged)
    ELSE IF h.click # None \/ h.drag # None THEN Collect(h.click \o h.drag)
    ELSE IF h.contains_pointer = <<>> THEN Collect(<<>>)
    ELSE Collect(<<h.contains_pointer[Len(h.contains_pointer)]>>)

\* Line 159: drag_changed.then_some(prev_snapshot.dragged).flatten()
DragEnded(dragged, prev_dragged) == IF DragChanged(dragged, prev_dragged) THEN prev_dragged ELSE None

\* Mutant: the two edges are swapped.
DragStartedSwapped(dragged, prev_dragged) ==
    IF DragChanged(dragged, prev_dragged) THEN prev_dragged ELSE None

\* Line 160: drag_changed.then_some(dragged).flatten()
DragStarted(dragged, prev_dragged) == IF DragChanged(dragged, prev_dragged) THEN dragged ELSE None

\* Mutant: the click and drag candidates are not merged in.
ContainsPointerListedOnly(h) == Collect(h.contains_pointer)

\* Lines 170-176
ContainsPointer(h) == Collect(h.contains_pointer \o h.click \o h.drag)

\* Lines 92-138: the liveness check, then the frame's events replayed with clicked = None.
ReplayFrame(st0, by_id, h, evs) ==
    LET st1 == LivenessCheck(st0, by_id)
    IN Replay([click_id |-> st1.click_id, drag_id |-> st1.drag_id, clicked |-> None], evs, by_id, h)

\* Lines 83-207: interact(prev_snapshot, widgets, hits, input, interaction); the result
\* holds the returned snapshot and the interaction state as the call leaves it.
Interact(prev_snapshot, by_id, h, evs, decided, st0) ==
    LET st2 == ReplayFrame(st0, by_id, h, evs)
        dragged == Dragged(st2.drag_id, by_id, decided)
    IN [interaction |-> [click_id |-> st2.click_id, drag_id |-> st2.drag_id],
        snapshot |-> [clicked |-> st2.clicked,
                      drag_started |-> DragStarted(dragged, prev_snapshot.dragged),
                      dragged |-> dragged,
                      drag_ended |-> DragEnded(dragged, prev_snapshot.dragged),
                      contains_pointer |-> ContainsPointer(h),
                      hovered |-> Hovered(st2.clicked, dragged, h)]]

\* InteractionSnapshot::default()
EmptySnapshot ==
    [clicked |-> None, drag_started |-> None, dragged |-> None, drag_ended |-> None,
     contains_pointer |-> <<>>, hovered |-> <<>>]

VARIABLES
    world,         \* what the surrounding UI may present (fixed for a run)
    phase,         \* "input": the frame's inputs are being gathered; "done": interact returned
    interaction,   \* the persistent InteractionState
    snapshot,      \* the snapshot returned by the last call (the next call's prev_snapshot)
    prev,          \* the prev_snapshot argument of the current or last call
    entry,         \* the InteractionState on entry to the current or last call
    widgets,       \* geometry table of the frame
    hits,          \* hit-test result of the frame
    events,        \* input.pointer.pointer_events of the frame
    decidedly,     \* input.pointer.is_decidedly_dragging() during the call
    armed,         \* history: the widget a Pressed adopted as click target, present in every
                   \* frame since and not yet released, as the frame's replay starts
    abandoned,     \* history: the click target the liveness check dropped, with no Pressed
                   \* or Released since, as the frame's replay starts
    ambiguous,     \* history: the click-and-drag widget pressed from a clean state and held
                   \* undecided through every frame so far, as the frame starts
    lifecycle      \* history: the drag-only widget pressed from a clean state and held through
                   \* frames of Moved events only, as the frame starts

vars == <<world, phase, interaction, snapshot, prev, entry, widgets, hits, events, decidedly,
          armed, abandoned, ambiguous, lifecycle>>

IsPressed(ev) == ev.type = "Pressed"
IsReleased(ev) == ev.type = "Released"
IsClickRelease(ev) == ev.type = "Released" /\ ev.click

\* The resolver's [click_id, drag_id, clicked] after the first k events of the frame.
AfterEvents(k) == ReplayFrame(entry, widgets, hits, SubSeq(events, 1, k))

\* armed after the first k events of the frame: a Pressed that finds click_id unset adopts
\* the click candidate, a Released ends the gesture.
RECURSIVE ArmedAfter(_)
ArmedAfter(k) ==
    IF k = 0 THEN armed
    ELSE LET a == ArmedAfter(k - 1)
         IN CASE IsReleased(events[k]) -> None
              [] IsPressed(events[k]) ->
                    IF AfterEvents(k - 1).click_id = None THEN MapId(hits.click) ELSE a
              [] OTHER -> a

\* abandoned after the events of the frame: any Pressed or Released starts or ends a gesture.
AbandonedAfterFrame ==
    IF \E k \in 1..Len(events) : IsPressed(events[k]) \/ IsReleased(events[k]) THEN None ELSE abandoned

HasReleased == \E k \in 1..Len(events) : IsReleased(events[k])
HasPressed == \E k \in 1..Len(events) : IsPressed(events[k])

\* The call starts clean: nothing tracked, nothing dragged in the previous snapshot.
CleanStart == entry = [click_id |-> None, drag_id |-> None] /\ prev.dragged = None

\* Widget a senses clicks and drags, is the click and the drag candidate of the frame, no
\* Released occurs and the gesture is not decidedly a drag.
Undecided(a) ==
    /\ a \in DOMAIN widgets
    /\ widgets[a].sense = SenseBoth
    /\ hits.click = Some(widgets[a])
    /\ hits.drag = Some(widgets[a])
    /\ ~HasReleased
    /\ ~decidedly
\* The frame opens the ambiguity window of a, or keeps it open.
WindowOpens(a) == CleanStart /\ HasPressed /\ Undecided(a)
WindowStays(a) == ambiguous = Some(a) /\ Undecided(a)

\* Widget b senses drags only, is the drag candidate and is pressed from a clean state, with
\* no Released after the Pressed; or it is held through a frame of Moved events only.
DragOpens(b) ==
    /\ CleanStart
    /\ b \in DOMAIN widgets
    /\ widgets[b].sense = SenseDrag
    /\ hits.drag = Some(widgets[b])
    /\ \E k \in 1..Len(events) :
          IsPressed(events[k]) /\ \A j \in (k + 1)..Len(events) : ~IsReleased(events[j])
DragStays(b) == lifecycle = Some(b) /\ b \in DOMAIN widgets /\ ~HasPressed /\ ~HasReleased

InitState ==
    /\ phase = "done"
    /\ interaction = [click_id |-> None, drag_id |-> None]
    /\ snapshot = EmptySnapshot
    /\ prev = EmptySnapshot
    /\ entry = [click_id |-> None, drag_id |-> None]
    /\ widgets = <<>>
    /\ hits = [click |-> None, drag |-> None, contains_pointer |-> <<>>]
    /\ events = <<>>
    /\ decidedly = FALSE
    /\ armed = None
    /\ abandoned = None
    /\ ambiguous = None
    /\ lifecycle = None

\* A new frame begins: the geometry table of the frame is in place, the hit tester has run
\* on it, and the pointer event list starts empty.
BeginFrame ==
    /\ phase = "done"
    /\ ambiguous' = IF \E a \in Ids : WindowOpens(a) \/ WindowStays(a)
                     THEN Some(CHOOSE a \in Ids : WindowOpens(a) \/ WindowStays(a)) ELSE None
    /\ lifecycle' = IF \E b \in Ids : DragOpens(b) \/ DragStays(b)
                     THEN Some(CHOOSE b \in Ids : DragOpens(b) \/ DragStays(b)) ELSE None
    /\ events' = <<>>
    /\ prev' = snapshot
    /\ entry' = interaction
    /\ phase' = "input"
    /\ decidedly' = FALSE
    /\ LET a == ArmedAfter(Len(events))
           gone == AbandonedAfterFrame
       IN \E by_id \in WidgetRects(world) :
          \E h \in WidgetHits(by_id, world.lists_pointer) :
              /\ widgets' = by_id
              /\ hits' = h
              /\ armed' = IF a # None /\ a[1] \in DOMAIN by_id THEN a ELSE None
              /\ abandoned' = IF interaction.click_id # None
                                  /\ interaction.click_id[1] \notin DOMAIN by_id
                               THEN interaction.click_id ELSE gone
    /\ UNCHANGED <<world, interaction, snapshot>>

\* The pointer subsystem records one more event for the frame.
PointerInput ==
    /\ phase = "input"
    /\ Len(events) < world.max_events
    /\ \E ev \in PointerEvent : events' = Append(events, ev)
    /\ UNCHANGED <<world, phase, interaction, snapshot, prev, entry, widgets, hits, decidedly, armed, abandoned,
                   ambiguous, lifecycle>>

\* The call of interact for the frame.
InteractFrame ==
    /\ phase = "input"
    /\ \E dd \in BOOLEAN :
        LET r == Interact(snapshot, widgets, hits, events, dd, interaction)
        IN /\ interaction' = r.interaction
           /\ snapshot' = r.snapshot
           /\ decidedly' = dd
    /\ phase' = "done"
    /\ UNCHANGED <<world, prev, entry, widgets, hits, events, armed, abandoned, ambiguous, lifecycle>>

Next == BeginFrame \/ PointerInput \/ InteractFrame

Init == world \in ClickWorlds /\ InitState
InitDrag == world \in DragWorlds /\ InitState
InitHover == world \in HoverWorlds /\ InitState
InitAmbiguity == world \in AmbiguityWorlds /\ InitState

Spec == Init /\ [][Next]_vars
SpecDrag == InitDrag /\ [][Next]_vars
SpecHover == InitHover /\ [][Next]_vars
SpecAmbiguity == InitAmbiguity /\ [][Next]_vars

\* ---------------------------------------------------------------- claims
HasClickRelease == \E k \in 1..Len(events) : IsClickRelease(events[k])
\* The last Pressed/Released event of the frame is a Released.
EndsReleased ==
    \E k \in 1..Len(events) :
        IsReleased(events[k]) /\ \A j \in (k + 1)..Len(events) : ~IsPressed(events[j])
\* After event r another Pressed adopts a click candidate other than w and a Released
\* carrying a click flag follows it.
Overridden(r, w) ==
    /\ hits.click # None
    /\ hits.click[1].id # w
    /\ \E j \in (r + 1)..Len(events) : \E k \in (j + 1)..Len(events) :
          IsPressed(events[j]) /\ IsClickRelease(events[k])

\* C1 (as stated): the first Released after a Pressed adopted W, carrying a click flag with W
\* present in every frame in between, makes clicked = W in the snapshot of its frame; a
\* frame without a Released carrying a click flag has clicked = none.
C1_ClickOnRelease ==
    phase = "done" =>
        /\ \A r \in 1..Len(events) :
              (IsClickRelease(events[r]) /\ ArmedAfter(r - 1) # None)
                  => MapId(snapshot.clicked) = ArmedAfter(r - 1)
        /\ ~HasClickRelease => snapshot.clicked = None

\* C1 (amended): as C1, unless later in the release frame another Pressed adopts a different
\* click candidate and is itself followed by a Released carrying a click flag.
C1_ClickOnReleaseUnlessOverridden ==
    phase = "done" =>
        /\ \A r \in 1..Len(events) :
              (IsClickRelease(events[r]) /\ ArmedAfter(r - 1) # None
                  /\ ~Overridden(r, ArmedAfter(r - 1)[1]))
                  => MapId(snapshot.clicked) = ArmedAfter(r - 1)
        /\ ~HasClickRelease => snapshot.clicked = None

\* C1 witness: a widget pressed in an earlier frame is released with a click flag and clicked.
C1_Witness ==
    /\ phase = "done"
    /\ armed # None
    /\ Len(events) = 1
    /\ IsClickRelease(events[1])
    /\ MapId(snapshot.clicked) = armed

\* C2 (as stated): a frame whose events contain a Pressed and a Released reports neither
\* dragged nor drag_started.
C2_NoDragWithPressAndRelease ==
    (phase = "done" /\ HasPressed /\ HasReleased)
        => (snapshot.dragged = None /\ snapshot.drag_started = None)

\* C2 (amended): a frame whose events contain a Pressed and whose last Pressed/Released
\* event is a Released reports neither dragged nor drag_started.
C2_NoDragWhenReleasedLast ==
    (phase = "done" /\ HasPressed /\ EndsReleased)
        => (snapshot.dragged = None /\ snapshot.drag_started = None)

\* C2 witness: with nothing tracked, press then release in one frame over a widget that
\* senses drags only.
C2_Witness ==
    /\ phase = "done"
    /\ entry.drag_id = None
    /\ events = <<Pressed, Released(FALSE)>>
    /\ hits.drag # None
    /\ ~hits.drag[1].sense.click
    /\ snapshot.dragged = None

\* C3: whenever drag_started is set for widget X, dragged is set for X in the same snapshot.
C3_DragStartedIsDragged ==
    snapshot.drag_started # None
        => (snapshot.dragged # None /\ snapshot.dragged[1].id = snapshot.drag_started[1].id)

\* C3 witness: a drag starts.
C3_Witness == phase = "done" /\ snapshot.drag_started # None /\ prev.dragged = None

\* C4: whenever drag_ended is set for widget X, dragged is not set for X in the same
\* snapshot and the previous snapshot had dragged set for X.
C4_DragEndedNotDragged ==
    (phase = "done" /\ snapshot.drag_ended # None)
        => /\ MapId(snapshot.dragged) # MapId(snapshot.drag_ended)
           /\ MapId(prev.dragged) = MapId(snapshot.drag_ended)

\* C5: when clicked or dragged is set, the keys of hovered are exactly their ids.
C5_HoverSuppression ==
    (snapshot.clicked # None \/ snapshot.dragged # None)
        => DOMAIN snapshot.hovered =
              {o[1].id : o \in {snapshot.clicked, snapshot.dragged} \ {None}}

\* C5 witness: a click on one widget and a drag of another in one frame, with a third
\* opinion from the hit tester.
C5_Witness ==
    /\ phase = "done"
    /\ snapshot.clicked # None
    /\ snapshot.dragged # None
    /\ snapshot.clicked[1].id # snapshot.dragged[1].id
    /\ Len(hits.contains_pointer) = 2
    /\ hits.click # None

\* C6: if drag_id = X on entry and X is absent from the geometry table, the snapshot does
\* not report dragged for X and drag_id is still X on return unless the events contain a
\* Released; once set, by an earlier frame or by a Pressed of this one, drag_id keeps its
\* value as long as no Released follows.
C6_DragTargetKept ==
    phase = "done" =>
        /\ (entry.drag_id # None /\ entry.drag_id[1] \notin DOMAIN widgets)
              => MapId(snapshot.dragged) # entry.drag_id
        /\ (entry.drag_id # None /\ ~HasReleased) => interaction.drag_id = entry.drag_id
        /\ \A k \in 1..Len(events) :
              (AfterEvents(k).drag_id # None
                  /\ \A j \in (k + 1)..Len(events) : ~IsReleased(events[j]))
                  => interaction.drag_id = AfterEvents(k).drag_id

\* C6 witness: the drag target is gone for a frame with a Pressed in it, and is still tracked.
C6_Witness ==
    /\ phase = "done"
    /\ entry.drag_id # None
    /\ entry.drag_id[1] \notin DOMAIN widgets
    /\ HasPressed
    /\ hits.drag # None
    /\ interaction.drag_id = entry.drag_id

\* C7: if click_id = X on entry and X is absent from the geometry table, click_id is no
\* longer X on return (none, unless a Pressed adopted another widget); and while the gesture
\* stays abandoned (no Pressed since), no Released makes clicked = X, even with X back in
\* the table.
C7_ClickTargetAbandoned ==
    phase = "done" =>
        /\ (entry.click_id # None /\ entry.click_id[1] \notin DOMAIN widgets)
              => /\ interaction.click_id # entry.click_id
                 /\ ~HasPressed => interaction.click_id = None
        /\ (abandoned # None /\ MapId(snapshot.clicked) = abandoned)
              => \E j \in 1..Len(events) : \E k \in (j + 1)..Len(events) :
                    IsPressed(events[j]) /\ IsClickRelease(events[k])

\* C7 witness: the abandoned widget is back in the table when the release with a click flag
\* arrives, and nothing is clicked.
C7_Witness ==
    /\ phase = "done"
    /\ abandoned # None
    /\ abandoned[1] \in DOMAIN widgets
    /\ hits.click = Some(widgets[abandoned[1]])
    /\ events = <<Released(TRUE)>>
    /\ snapshot.clicked = None

\* C8: every Released leaves click_id and drag_id none, so a frame whose last
\* Pressed/Released event is a Released returns with both none; a Released that finds no
\* live click target records no click.
C8_ReleaseEndsGesture ==
    phase = "done" =>
        /\ \A k \in 1..Len(events) :
              IsReleased(events[k])
                  => (AfterEvents(k).click_id = None /\ AfterEvents(k).drag_id = None)
        /\ EndsReleased => (interaction.click_id = None /\ interaction.drag_id = None)
        /\ ((entry.click_id = None \/ entry.click_id[1] \notin DOMAIN widgets) /\ ~HasPressed)
              => snapshot.clicked = None

\* C8 witness: a release without click flag ends a gesture that tracked both a click and a
\* drag target.
C8_Witness ==
    /\ phase = "done"
    /\ entry.click_id # None
    /\ entry.drag_id # None
    /\ events = <<Released(FALSE)>>
    /\ interaction = [click_id |-> None, drag_id |-> None]

\* C9: with nothing clicked or dragged and no click or drag candidate, hovered holds exactly
\* the last element of hits.contains_pointer, or nothing when that sequence is empty.
C9_PassiveHover ==
    (phase = "done" /\ snapshot.clicked = None /\ snapshot.dragged = None
        /\ hits.click = None /\ hits.drag = None)
        => IF hits.contains_pointer = <<>> THEN DOMAIN snapshot.hovered = {}
           ELSE /\ DOMAIN snapshot.hovered = {hits.contains_pointer[Len(hits.contains_pointer)].id}
                /\ \A i \in DOMAIN snapshot.hovered :
                      snapshot.hovered[i] = hits.contains_pointer[Len(hits.contains_pointer)]

\* C9 witness: two widgets contain the pointer and only the topmost is hovered.
C9_Witness ==
    /\ phase = "done"
    /\ Len(hits.contains_pointer) = 2
    /\ hits.click = None
    /\ hits.drag = None
    /\ Cardinality(DOMAIN snapshot.hovered) = 1

\* C10: whenever drag_ended is set, the frame's events contain a Released and the widget
\* was dragged in the previous snapshot.
C10_DragEndedMeansReleased ==
    (phase = "done" /\ snapshot.drag_ended # None)
        => (HasReleased /\ MapId(prev.dragged) = MapId(snapshot.drag_ended))

\* C11 (as stated): from a clean start, the frame with the Pressed over the click-and-drag
\* candidate A and every following frame that keeps A undecided report dragged,
\* drag_started and clicked none and hovered = {A}; the frame whose first Released carries a
\* click flag, with A still in the geometry table, reports clicked = A.
C11_AmbiguityWindow ==
    phase = "done" =>
        \A a \in Ids :
            /\ (WindowOpens(a) \/ WindowStays(a))
                  => /\ snapshot.dragged = None
                     /\ snapshot.drag_started = None
                     /\ snapshot.clicked = None
                     /\ DOMAIN snapshot.hovered = {a}
            /\ (ambiguous = Some(a) /\ a \in DOMAIN widgets)
                  => \A r \in 1..Len(events) :
                        (IsClickRelease(events[r]) /\ \A j \in 1..(r - 1) : ~IsReleased(events[j]))
                            => MapId(snapshot.clicked) = Some(a)

\* C11 (amended): as C11, unless later in the release frame another Pressed adopts a
\* different click candidate and is itself followed by a Released carrying a click flag.
C11_AmbiguityWindowUnlessOverridden ==
    phase = "done" =>
        \A a \in Ids :
            /\ (WindowOpens(a) \/ WindowStays(a))
                  => /\ snapshot.dragged = None
                     /\ snapshot.drag_started = None
                     /\ snapshot.clicked = None
                     /\ DOMAIN snapshot.hovered = {a}
            /\ (ambiguous = Some(a) /\ a \in DOMAIN widgets)
                  => \A r \in 1..Len(events) :
                        (IsClickRelease(events[r]) /\ (\A j \in 1..(r - 1) : ~IsReleased(events[j]))
                            /\ ~Overridden(r, a))
                            => MapId(snapshot.clicked) = Some(a)

\* C11 witness: the window stayed open over an earlier frame and the release clicks A.
C11_Witness ==
    /\ phase = "done"
    /\ ambiguous # None
    /\ prev.hovered # <<>>
    /\ prev.dragged = None
    /\ entry.drag_id = ambiguous
    /\ events = <<Released(TRUE)>>
    /\ MapId(snapshot.clicked) = ambiguous

\* C12: from a clean start, the frame with the Pressed over the drag-only candidate B (and
\* no later Released) reports dragged = B and drag_started = B whatever
\* is_decidedly_dragging says; every following frame of Moved events only with B in the
\* geometry table reports dragged = B and neither drag_started nor drag_ended; the frame
\* with the Released (and no Pressed) reports dragged none and drag_ended = B.
C12_DragOnlyLifecycle ==
    phase = "done" =>
        \A b \in Ids :
            /\ DragOpens(b)
                  => (MapId(snapshot.dragged) = Some(b) /\ MapId(snapshot.drag_started) = Some(b))
            /\ DragStays(b)
                  => /\ MapId(snapshot.dragged) = Some(b)
                     /\ snapshot.drag_started = None
                     /\ snapshot.drag_ended = None
            /\ (lifecycle = Some(b) /\ HasReleased /\ ~HasPressed)
                  => (snapshot.dragged = None /\ MapId(snapshot.drag_ended) = Some(b))

\* C13: if this frame's dragged widget has the id of the previous frame's dragged widget,
\* neither drag_started nor drag_ended is set, whatever became of its rectangle.
C13_DragEdgesByIdentity ==
    (phase = "done" /\ snapshot.dragged # None /\ MapId(snapshot.dragged) = MapId(prev.dragged))
        => (snapshot.drag_started = None /\ snapshot.drag_ended = None)

\* C14: a Pressed sets click_id to the click candidate's id only when click_id is none, and
\* drag_id to the drag candidate's id only when drag_id is none; tracked targets are left
\* alone, and one Pressed can adopt both.
C14_PressAdoptsOnlyWhenUnset ==
    phase = "done" =>
        /\ \A k \in 1..Len(events) :
              IsPressed(events[k]) =>
                  /\ AfterEvents(k).click_id =
                        IF AfterEvents(k - 1).click_id = None THEN MapId(hits.click)
                        ELSE AfterEvents(k - 1).click_id
                  /\ AfterEvents(k).drag_id =
                        IF AfterEvents(k - 1).drag_id = None THEN MapId(hits.drag)
                        ELSE AfterEvents(k - 1).drag_id
        /\ (HasPressed /\ ~HasReleased) =>
              /\ interaction.click_id =
                    IF entry.click_id # None /\ entry.click_id[1] \in DOMAIN widgets
                    THEN entry.click_id ELSE MapId(hits.click)
              /\ interaction.drag_id =
                    IF entry.drag_id # None THEN entry.drag_id ELSE MapId(hits.drag)

\* C14 witness: one Pressed adopts a click target and a different drag target.
C14_Witness ==
    /\ phase = "done"
    /\ entry = [click_id |-> None, drag_id |-> None]
    /\ events = <<Pressed>>
    /\ interaction.click_id # None
    /\ interaction.drag_id # None
    /\ interaction.click_id # interaction.drag_id

\* C15: drag_id = X carried into a frame with no Released stays X whether or not X is in
\* the geometry table; while X is absent nothing is dragged, and once X is in the table
\* dragged is X again as the sense flags and is_decidedly_dragging decide, without any
\* new Pressed.
C15_DragResumes ==
    (phase = "done" /\ entry.drag_id # None /\ ~HasReleased) =>
        LET x == entry.drag_id[1]
        IN /\ interaction.drag_id = entry.drag_id
           /\ x \notin DOMAIN widgets => snapshot.dragged = None
           /\ x \in DOMAIN widgets =>
                 snapshot.dragged =
                     IF widgets[x].sense.drag /\ (widgets[x].sense.click => decidedly)
                     THEN Some(widgets[x]) ELSE None

\* C15 witness: a drag-only widget tracked as drag target was not dragged in the previous
\* frame (it was absent), is back, and is dragged again without a Pressed.
C15_Witness ==
    /\ phase = "done"
    /\ entry.drag_id # None
    /\ entry.drag_id[1] \in DOMAIN widgets
    /\ widgets[entry.drag_id[1]].sense = SenseDrag
    /\ prev.dragged = None
    /\ ~HasPressed
    /\ ~HasReleased
    /\ MapId(snapshot.dragged) = entry.drag_id
    /\ MapId(snapshot.drag_started) = entry.drag_id

\* C16: a frame with no events or Moved events only leaves drag_id unchanged, leaves
\* click_id unchanged unless its widget is absent from the geometry table (then none), and
\* reports clicked none.
C16_MovedChangesNothing ==
    (phase = "done" /\ ~HasPressed /\ ~HasReleased) =>
        /\ interaction.drag_id = entry.drag_id
        /\ interaction.click_id =
              IF entry.click_id # None /\ entry.click_id[1] \notin DOMAIN widgets
              THEN None ELSE entry.click_id
        /\ snapshot.clicked = None

\* C16 witness: a frame of Moved events over candidates, with a drag target that stays
\* tracked and a click target that is gone.
C16_Witness ==
    /\ phase = "done"
    /\ events = <<Moved, Moved>>
    /\ entry.click_id # None
    /\ entry.click_id[1] \notin DOMAIN widgets
    /\ entry.drag_id # None
    /\ hits.drag # None
    /\ interaction = [click_id |-> None, drag_id |-> entry.drag_id]

\* C17: with clicked and dragged none and a click or drag candidate present, the keys of
\* hovered are exactly the ids of the candidates.
C17_CandidateHover ==
    (phase = "done" /\ snapshot.clicked = None /\ snapshot.dragged = None
        /\ (hits.click # None \/ hits.drag # None))
        => DOMAIN snapshot.hovered = {o[1].id : o \in {hits.click, hits.drag} \ {None}}

\* C17 witness: two different candidates, both hovered, while another widget is topmost
\* under the pointer and a click target is tracked.
C17_Witness ==
    /\ phase = "done"
    /\ snapshot.clicked = None
    /\ snapshot.dragged = None
    /\ hits.click # None
    /\ hits.drag # None
    /\ Len(hits.contains_pointer) = 2
    /\ interaction.click_id # None
    /\ Cardinality(DOMAIN snapshot.hovered) = 2

\* C18: the keys of the snapshot's contains_pointer are the ids listed in
\* hits.contains_pointer together with the ids of hits.click and hits.drag.
C18_ContainsPointerUnion ==
    phase = "done" =>
        DOMAIN snapshot.contains_pointer =
            {hits.contains_pointer[k].id : k \in 1..Len(hits.contains_pointer)}
                \cup {o[1].id : o \in {hits.click, hits.drag} \ {None}}

\* C18 witness: a candidate that the hit tester did not list is merged in, in a frame with
\* events and a tracked target.
C18_Witness ==
    /\ phase = "done"
    /\ Len(hits.contains_pointer) = 1
    /\ hits.click # None
    /\ hits.click[1] # hits.contains_pointer[1]
    /\ HasPressed
    /\ entry.drag_id # None
    /\ Cardinality(DOMAIN snapshot.contains_pointer) = 2

\* C19: when interact returns, click_id is none or the id of a widget of the frame's
\* geometry table; drag_id can be the id of a widget that is not in the table.
C19_ClickTargetLive ==
    phase = "done" => (interaction.click_id = None \/ interaction.click_id[1] \in DOMAIN widgets)

\* C19 witness: a live click target next to a drag target that is not in the table.
C19_Witness ==
    /\ phase = "done"
    /\ interaction.click_id # None
    /\ interaction.drag_id # None
    /\ interaction.drag_id[1] \notin DOMAIN widgets

\* C20: a dragged widget has the id left in drag_id, is the geometry table's entry for that
\* id, senses drags and, if it senses clicks too, the gesture is decidedly a drag; with
\* drag_id none on return, dragged and drag_started are none.
C20_DraggedAgreesWithTracker ==
    phase = "done" =>
        /\ snapshot.dragged # None =>
              /\ MapId(snapshot.dragged) = interaction.drag_id
              /\ snapshot.dragged[1].id \in DOMAIN widgets
              /\ snapshot.dragged[1] = widgets[snapshot.dragged[1].id]
              /\ snapshot.dragged[1].sense.drag
              /\ snapshot.dragged[1].sense.click => decidedly
        /\ interaction.drag_id = None
              => (snapshot.dragged = None /\ snapshot.drag_started = None)

\* C20 witness: a click-and-drag widget is dragged once the gesture is decidedly a drag.
C20_Witness ==
    /\ phase = "done"
    /\ snapshot.dragged # None
    /\ snapshot.dragged[1].sense = SenseBoth
    /\ decidedly
    /\ prev.dragged = None
    /\ ~HasPressed
====
